---- MODULE Spec2Model ----
(***************************************************************************)
(* Model of IndustrialRAGSystem (src/industrial_rag_system.py): one        *)
(* instance, its ChromaDB collection, the index build, the reload and the  *)
(* query path (search, generate_response).                                 *)
(*                                                                         *)
(* The embedding provider, the completion provider and the vector store    *)
(* are external: each call to them either answers or raises, and the model *)
(* chooses which.                                                          *)
(***************************************************************************)
EXTENDS Integers, Sequences, FiniteSets, TLC

(* ------------------------------ bounds --------------------------------- *)

\* documents handed to one build_index call
MaxDocs == 2
\* chunks chunk_text produces for the longest document
MaxChunks == 2
\* build_index calls in one run of the model
MaxBuilds == 2
\* load_index calls in one run of the model
MaxLoads == 1
\* largest top_k a query asks for
MaxTopK == 3
\* embeddings are one-dimensional, with coordinates 0..MaxEmb
MaxEmb == 3
\* callers that run search / generate_response at the same time
MaxCallers == 2
\* characters of the longest text chunk_text is given
MaxText == 6
\* largest chunk_size chunk_text is given
MaxChunkSize == 5
\* chat calls made on one IndustrialWebInterface
MaxChats == 2

(* ------------------------- program constants --------------------------- *)

\* create_embeddings: batch_size
BatchSize == 100
\* load_index: collection.get(limit=1000)
SampleCap == 1000

(* ------------------------------ inputs --------------------------------- *)

\* A path, by its parts: Path(p).stem is the file name without its suffix.
PathA == [dir |-> "a", stem |-> "directive_001", suffix |-> ".pdf"]
PathB == [dir |-> "b", stem |-> "directive_001", suffix |-> ".pdf"]
PathC == [dir |-> "a", stem |-> "directive_017", suffix |-> ".pdf"]
PathD == [dir |-> "a", stem |-> "scanned", suffix |-> ".pdf"]
PathE == [dir |-> "a", stem |-> "manual_071", suffix |-> ".pdf"]

\* The files on disk, by the number of chunks chunk_text makes of their text:
\* a scanned PDF has no text layer and yields none, and one long manual
\* yields as many chunks as load_index samples entries.
FileChunks(path) ==
    IF path = PathA THEN MaxChunks
    ELSE IF path = PathB THEN MaxChunks - 1
    ELSE IF path = PathC THEN MaxChunks
    ELSE IF path = PathE THEN SampleCap
    ELSE 0

\* The dicts build_index is called with.
DocA == [path |-> PathA, name |-> "Directive 001", type |-> "Site-Specific Liability"]
DocB == [path |-> PathB, name |-> "Directive 001", type |-> "Site-Specific Liability"]
DocC == [path |-> PathC, name |-> "Directive 017", type |-> "Measurement Requirements"]
DocD == [path |-> PathD, name |-> "Directive 056", type |-> "Energy Development"]
DocE == [path |-> PathE, name |-> "Manual 071", type |-> "Compliance"]

Docs == {DocA, DocB, DocC, DocD}

RECURSIVE SeqsUpTo(_, _)
\* Sequences over S of length at most n.
SeqsUpTo(S, n) ==
    IF n = 0 THEN {<<>>}
    ELSE LET shorter == SeqsUpTo(S, n - 1)
         IN  shorter \cup {Append(s, x) : s \in {t \in shorter : Len(t) = n - 1}, x \in S}

DocLists == SeqsUpTo(Docs, MaxDocs)

\* document_filter: absent (None), the sentinel, the empty string, stored
\* names and a name no document has.
NoFilter == "<None>"
AllDocuments == "All Documents"
Filters == {NoFilter, AllDocuments, "", "Directive 001", "Directive 017", "Nonexistent Doc"}

Min(a, b) == IF a < b THEN a ELSE b

(* ------------------------------ state ---------------------------------- *)

VARIABLES
    store,        \* the persisted collection "aer_directives": [id, entries], id 0 when absent
    collection,   \* self.collection: the id of the collection the handle names, 0 for None
    documents,    \* self.documents: doc_id -> [name, type, path, chunks]
    b,            \* the build_index call in progress or last finished
    everOk,       \* a build_index or load_index has returned normally on this instance
    loads,        \* load_index calls made so far
    lres,         \* how the load_index call ended, when it was the last call made
    qres,         \* the search that ran last: its arguments, its provider requests, its result
    gres,         \* the generate_response call, when it was the last call made
    callers,      \* the locals of each caller inside search / generate_response
    chroma_db,    \* the directory ./chroma_db exists
    app,          \* IndustrialWebInterface: how initialize_system ended, its
                  \* conversation_history, the Chatbot component, the chat call
    ct            \* the chunk_text call: its arguments and locals

vars == <<store, collection, documents, b, everOk, loads, lres, qres, gres,
          callers, chroma_db, app, ct>>

None == 0

NoDocuments == [d \in {} |-> 0]

NoStore == [id |-> 0, entries |-> <<>>]

(* ----------------------- external collaborators ------------------------ *)

\* text-embedding provider: the vector it answers for a chunk text. Chunk texts
\* are named by the file they come from and their position in it.
PathSeed(path) ==
    IF path = PathA THEN 0 ELSE IF path = PathB THEN 1 ELSE IF path = PathC THEN 2 ELSE 3

EmbeddingOf(text) == (PathSeed(text.path) + text.k) % (MaxEmb + 1)

\* create_collection with get_or_create semantics: an existing collection is
\* returned as it is.
StoreGetOrCreate(st, newId) ==
    IF st.id # 0 THEN [raised |-> FALSE, store |-> st]
    ELSE [raised |-> FALSE, store |-> [id |-> newId, entries |-> <<>>]]

\* chroma_client.create_collection(name=...): raises when the name exists,
\* otherwise makes an empty collection.
StoreCreate(st, newId) ==
    IF st.id # 0 THEN [raised |-> TRUE, store |-> st]
    ELSE [raised |-> FALSE, store |-> [id |-> newId, entries |-> <<>>]]

\* chroma_client.delete_collection(name=...): raises when the name is absent.
StoreDelete(st) ==
    IF st.id = 0 THEN [raised |-> TRUE, store |-> st]
    ELSE [raised |-> FALSE, store |-> NoStore]

(* ----------------------------- chunk_text ------------------------------ *)

\* The characters of a text: a letter, a blank and the three sentence ends.
Alphabet == {"a", " ", "."}

\* The texts chunk_text is given, as sequences of characters.
Texts == SeqsUpTo(Alphabet, MaxText)

\* Iterations of the while loop the model follows. start is below the length
\* of the text and above -chunk_size, and a round depends on start alone: a
\* run of this many rounds has met some start twice and never ends.
MaxIter == MaxText + MaxChunkSize

Max(x, y) == IF x > y THEN x ELSE y

\* The zero-based position at which the Python slice s[i:...] begins.
SliceFrom(s, i) == IF i < 0 THEN Max(Len(s) + i, 0) ELSE Min(i, Len(s))

\* s[i:j] of Python for any integers i and j.
Slice(s, i, j) ==
    LET lo == SliceFrom(s, i)
        hi == SliceFrom(s, j)
    IN  IF hi <= lo THEN <<>> ELSE SubSeq(s, lo + 1, hi)

\* s.rfind(ch): the highest zero-based index of ch in s, -1 when there is none.
RFind(s, ch) ==
    LET at == {i \in 1..Len(s) : s[i] = ch}
    IN  IF at = {} THEN -1 ELSE (CHOOSE i \in at : \A j \in at : j <= i) - 1

\* The number of whitespace characters s begins with.
LeadingSpace(s) ==
    LET word == {i \in 1..Len(s) : s[i] # " "}
    IN  IF word = {} THEN Len(s) ELSE (CHOOSE i \in word : \A j \in word : i <= j) - 1

\* The number of whitespace characters s ends with.
TrailingSpace(s) ==
    LET word == {i \in 1..Len(s) : s[i] # " "}
    IN  IF word = {} THEN Len(s) ELSE Len(s) - (CHOOSE i \in word : \A j \in word : j <= i)

\* s.strip()
Strip(s) ==
    IF LeadingSpace(s) = Len(s) THEN <<>>
    ELSE SubSeq(s, LeadingSpace(s) + 1, Len(s) - TrailingSpace(s))

\* Lines 67-80 of chunk_text, one round of the loop from start: the window
\* text[start:end], cut after its last sentence end when that lies past the
\* middle of the window and the text goes on after it.
ChunkWindow(text, start, chunk_size) ==
    LET end         == start + chunk_size
        chunk_text  == Slice(text, start, end)
        last_period == Max(Max(RFind(chunk_text, "."), RFind(chunk_text, "?")),
                           RFind(chunk_text, "!"))
        cut         == end < Len(text) /\ 2 * last_period > chunk_size
    IN  [chunk |-> IF cut THEN Slice(chunk_text, 0, last_period + 1) ELSE chunk_text,
         end   |-> IF cut THEN start + last_period + 1 ELSE end]

\* The next window beginning one character earlier than end - overlap.
NextStartOneEarlier(end, overlap) == end - overlap - 1

\* start = end - overlap
NextStart(end, overlap) == end - overlap

\* No chunk_text call.
NoChunking ==
    [pc |-> "idle", text |-> <<>>, chunk_size |-> 1, overlap |-> 0, start |-> 0,
     prev |-> 0, iter |-> 0, chunks |-> <<>>, windows |-> <<>>]

\* chunk_text(text, chunk_size, overlap) is called.
ChunkCall(text, chunk_size, overlap) ==
    [NoChunking EXCEPT !.pc = "loop", !.text = text, !.chunk_size = chunk_size,
                       !.overlap = overlap]

\* One round of the while loop. Each window is kept with the positions of
\* the text it read (lo up to hi) and of its stripped chunk (from up to to).
ChunkStep ==
    /\ ct.pc = "loop"
    /\ ct.start < Len(ct.text)
    /\ ct.iter < MaxIter
    /\ LET w        == ChunkWindow(ct.text, ct.start, ct.chunk_size)
           stripped == Strip(w.chunk)
           lo       == SliceFrom(ct.text, ct.start)
           hi       == lo + Len(w.chunk)
       IN  ct' = [ct EXCEPT
                    !.chunks  = IF stripped # <<>> THEN Append(@, stripped) ELSE @,
                    !.windows = Append(@, [start |-> ct.start, end |-> w.end,
                                           lo |-> lo, hi |-> hi,
                                           from |-> lo + LeadingSpace(w.chunk),
                                           to |-> lo + LeadingSpace(w.chunk) + Len(stripped),
                                           emitted |-> stripped # <<>>]),
                    !.prev    = ct.start,
                    !.start   = NextStart(w.end, ct.overlap),
                    !.iter    = @ + 1]
    /\ UNCHANGED <<store, collection, documents, b, everOk, loads, lres, qres, gres,
                   callers, chroma_db, app>>

\* The loop ends: return chunks.
ChunkReturn ==
    /\ ct.pc = "loop"
    /\ ct.start >= Len(ct.text)
    /\ ct' = [ct EXCEPT !.pc = "done"]
    /\ UNCHANGED <<store, collection, documents, b, everOk, loads, lres, qres, gres,
                   callers, chroma_db, app>>

(* ---------------------------- build_index ------------------------------ *)

\* Path(pdf_path).stem
Stem(path) == path.stem

\* The order of build_index with the store emptied before the chunks are embedded.
StepAfterDeleteFirst(step) ==
    CASE step = "extract" -> "delete"
      [] step = "delete"  -> "create"
      [] step = "create"  -> "embed"
      [] step = "embed"   -> "insert"
      [] step = "insert"  -> "report"
      [] OTHER            -> "idle"

\* The order of build_index: the add_document loop, create_embeddings,
\* delete_collection, create_collection, collection.add, the closing report.
StepAfter(step) ==
    CASE step = "extract" -> "embed"
      [] step = "embed"   -> "delete"
      [] step = "delete"  -> "create"
      [] step = "create"  -> "insert"
      [] step = "insert"  -> "report"
      [] OTHER            -> "idle"

\* The chunks add_document returns for a document whose text yields n chunks.
ChunkTexts(path, n) == [i \in 1..n |-> [path |-> path, k |-> i - 1]]

\* The metadata build_index attaches to chunk i (zero-based) of doc.
ChunkMeta(doc, i) ==
    [document_id   |-> Stem(doc.path),
     document_name |-> doc.name,
     document_type |-> doc.type,
     chunk_index   |-> i,
     source_file   |-> doc.path]

\* What one round of the loop over documents appends to all_chunks and
\* all_metadatas: the chunks of doc, each with its metadata.
DocRows(doc) ==
    LET texts == ChunkTexts(doc.path, FileChunks(doc.path))
    IN  [i \in 1..Len(texts) |-> [text |-> texts[i], meta |-> ChunkMeta(doc, i - 1)]]

\* self.documents[doc_id] = {...}
Register(reg, doc, n) ==
    [d \in DOMAIN reg \cup {Stem(doc.path)} |->
        IF d = Stem(doc.path)
        THEN [name |-> doc.name, type |-> doc.type, path |-> doc.path, chunks |-> n]
        ELSE reg[d]]

\* The rows with identifiers numbered inside each document, from its
\* chunk_index.
NewEntriesIdPerDocument(all_chunks, embeddings, run) ==
    [i \in 1..Len(all_chunks) |->
        [id        |-> <<"chunk", all_chunks[i].meta.chunk_index>>,
         embedding |-> embeddings[i],
         text      |-> all_chunks[i].text,
         meta      |-> all_chunks[i].meta,
         run       |-> run]]

\* ids = [f"chunk_{i}" ...] and the rows collection.add is given.
NewEntries(all_chunks, embeddings, run) ==
    [i \in 1..Len(all_chunks) |->
        [id        |-> <<"chunk", i - 1>>,
         embedding |-> embeddings[i],
         text      |-> all_chunks[i].text,
         meta      |-> all_chunks[i].meta,
         run       |-> run]]

IdleBuild ==
    [pc |-> "idle", docs |-> <<>>, idx |-> 1, all_chunks |-> <<>>, embeddings |-> <<>>,
     ops |-> <<>>, no |-> 0, outcome |-> "none", failStep |-> "none",
     pre |-> [store |-> NoStore, documents |-> NoDocuments, collection |-> None]]

\* build_index is left, by return or by an exception: its locals are gone,
\* and b.docs is the list the caller passed and still holds.
Leave(outcome, step) ==
    [b EXCEPT !.pc = "idle", !.outcome = outcome, !.failStep = step,
              !.idx = 1, !.all_chunks = <<>>, !.embeddings = <<>>]

Raise(step) == Leave("raised", step)

NoSearch ==
    [status |-> "none", query |-> 0, top_k |-> 0, filter |-> NoFilter, fault |-> "none",
     everOk |-> FALSE, embedReqs |-> 0, storeQueries |-> 0, where |-> NoFilter,
     raw |-> <<>>, out |-> <<>>]

\* No answer of the completion provider.
NoCompletion == [given |-> FALSE, context |-> <<>>, query |-> 0]

NoAnswer ==
    [status |-> "none", fault |-> "none", results |-> <<>>, sources |-> <<>>,
     context |-> <<>>, completions |-> 0, answer |-> NoCompletion]

Callers == 1..MaxCallers

\* query_embedding before the provider has answered
NoEmbedding == -1

\* A caller that is not inside search or generate_response.
NoCall ==
    [pc |-> "idle", kind |-> "none", query_embedding |-> NoEmbedding,
     found |-> NoSearch, answer |-> NoAnswer,
     seen |-> [pc |-> "none", absent |-> FALSE],
     pre |-> [store |-> NoStore, collection |-> None, documents |-> NoDocuments]]

\* No chat call has been made.
NoChat ==
    [pc |-> "idle", message |-> <<>>, document_filter |-> AllDocuments,
     history |-> <<>>, found |-> NoSearch, response |-> NoAnswer,
     pre |-> [chatbot |-> <<>>, conversation_history |-> <<>>, requests |-> 0,
              collection |-> None, documents |-> NoDocuments]]

\* IndustrialWebInterface before initialize_system has run: no conversation
\* is logged, the Chatbot component shows [], no chat call has been made.
NoApp ==
    [status |-> "none", dirAtStart |-> TRUE, conversation_history |-> <<>>,
     chatbot |-> <<>>, chat |-> NoChat, chats |-> 0, requests |-> 0]

\* The instance alone, made by IndustrialRAGSystem(): no concurrent caller,
\* no web application, no chunk_text call.
OnlyInstance ==
    /\ callers = [c \in Callers |-> NoCall]
    /\ chroma_db = TRUE
    /\ app = NoApp
    /\ ct = NoChunking

\* No call is in progress and the caller has taken the last call's result.
Settled ==
    /\ b.pc = "idle"
    /\ lres = "none"
    /\ qres = NoSearch
    /\ gres = NoAnswer

\* The caller takes the result of the call that ended and goes on.
Resume ==
    /\ b.pc = "idle"
    /\ ~Settled
    /\ lres' = "none"
    /\ qres' = NoSearch
    /\ gres' = NoAnswer
    /\ UNCHANGED <<store, collection, documents, b, everOk, loads>>
    /\ UNCHANGED <<callers, chroma_db, app, ct>>

\* build_index(documents) is called.
BuildStart(docs) ==
    /\ Settled
    /\ b.no < MaxBuilds
    /\ b' = [pc |-> IF docs = <<>> THEN StepAfter("extract") ELSE "extract",
             docs |-> docs, idx |-> 1, all_chunks |-> <<>>, embeddings |-> <<>>,
             ops |-> <<>>, no |-> b.no + 1, outcome |-> "running", failStep |-> "none",
             pre |-> [store |-> store, documents |-> documents, collection |-> collection]]
    /\ UNCHANGED <<store, collection, documents, everOk, loads, lres, qres, gres>>
    /\ UNCHANGED <<callers, chroma_db, app, ct>>

\* One round of the loop over documents: add_document, which raises when the
\* PDF is missing or corrupt, then the chunk metadata.
BuildAddDocument ==
    /\ b.pc = "extract"
    /\ LET doc == b.docs[b.idx]
       IN  \/ /\ b' = Raise("extract")
              /\ UNCHANGED documents
           \/  LET rows == DocRows(doc)
                IN  /\ documents' = Register(documents, doc, Len(rows))
                    /\ b' = [b EXCEPT !.all_chunks = b.all_chunks \o rows,
                                      !.idx = b.idx + 1,
                                      !.pc = IF b.idx = Len(b.docs)
                                             THEN StepAfter("extract") ELSE "extract"]
    /\ UNCHANGED <<store, collection, everOk, loads, lres, qres, gres>>
    /\ UNCHANGED <<callers, chroma_db, app, ct>>

\* create_embeddings: one batch of at most batch_size texts per request; the
\* loop ends when every text has its embedding.
BuildEmbed ==
    /\ b.pc = "embed"
    /\ LET done == Len(b.embeddings)
           upto == Min(done + BatchSize, Len(b.all_chunks))
       IN  IF done >= Len(b.all_chunks)
           THEN b' = [b EXCEPT !.pc = StepAfter("embed")]
           ELSE \/ b' = Raise("embed")
                \/ b' = [b EXCEPT !.embeddings =
                            b.embeddings \o [i \in 1..(upto - done) |->
                                                EmbeddingOf(b.all_chunks[done + i].text)]]
    /\ UNCHANGED <<store, collection, documents, everOk, loads, lres, qres, gres>>
    /\ UNCHANGED <<callers, chroma_db, app, ct>>

\* try: delete_collection  except: pass
BuildDelete ==
    /\ b.pc = "delete"
    /\ \/ store' = StoreDelete(store).store
       \/ UNCHANGED store
    /\ b' = [b EXCEPT !.ops = Append(b.ops, "delete"), !.pc = StepAfter("delete")]
    /\ UNCHANGED <<collection, documents, everOk, loads, lres, qres, gres>>
    /\ UNCHANGED <<callers, chroma_db, app, ct>>

\* self.collection = create_collection(...)
BuildCreate ==
    /\ b.pc = "create"
    /\ LET r == StoreCreate(store, b.no)
       IN  \/ /\ ~r.raised
              /\ store' = r.store
              /\ collection' = r.store.id
              /\ b' = [b EXCEPT !.ops = Append(b.ops, "create"), !.pc = StepAfter("create")]
           \/ /\ b' = [Raise("create") EXCEPT !.ops = Append(b.ops, "create")]
              /\ UNCHANGED <<store, collection>>
    /\ UNCHANGED <<documents, everOk, loads, lres, qres, gres>>
    /\ UNCHANGED <<callers, chroma_db, app, ct>>

\* self.collection.add(embeddings, documents, metadatas, ids); when the store
\* raises, any part of the rows short of all of them may have been written.
BuildInsert ==
    /\ b.pc = "insert"
    /\ LET rows == NewEntries(b.all_chunks, b.embeddings, b.no)
       IN  \/ /\ store.id = collection
              /\ Len(b.embeddings) = Len(b.all_chunks)
              /\ store' = [store EXCEPT !.entries = store.entries \o rows]
              /\ b' = [b EXCEPT !.ops = Append(b.ops, "insert"), !.pc = StepAfter("insert")]
           \/ \E kept \in 0..Len(rows) :
                /\ kept < Len(rows) \/ rows = <<>>
                /\ store' = [store EXCEPT !.entries = store.entries \o SubSeq(rows, 1, kept)]
                /\ b' = [Raise("insert") EXCEPT !.ops = Append(b.ops, "insert")]
    /\ UNCHANGED <<collection, documents, everOk, loads, lres, qres, gres>>
    /\ UNCHANGED <<callers, chroma_db, app, ct>>

\* The closing report: len(embeddings[0]) raises IndexError on an empty list.
BuildReport ==
    /\ b.pc = "report"
    /\ IF b.embeddings = <<>>
       THEN /\ b' = Raise("report")
            /\ UNCHANGED everOk
       ELSE /\ b' = Leave("ok", "none")
            /\ everOk' = TRUE
    /\ UNCHANGED <<store, collection, documents, loads, lres, qres, gres>>
    /\ UNCHANGED <<callers, chroma_db, app, ct>>

(* ------------------------------ __init__ ------------------------------- *)

\* A new IndustrialRAGSystem over the same ./chroma_db directory.
NewInstance ==
    /\ Settled
    /\ collection # None \/ documents # NoDocuments \/ everOk
    /\ collection' = None
    /\ documents' = NoDocuments
    /\ everOk' = FALSE
    /\ UNCHANGED <<store, b, loads, lres, qres, gres>>
    /\ chroma_db' = TRUE
    /\ UNCHANGED <<callers, app, ct>>

(* ----------------------------- load_index ------------------------------ *)

\* collection.get(include=['metadatas']) without a limit: every entry.
SampleAll(entries, limit) ==
    [i \in 1..Len(entries) |-> entries[i].meta]

\* collection.get(limit=..., include=['metadatas'])
Sample(entries, limit) ==
    [i \in 1..Min(limit, Len(entries)) |-> entries[i].meta]

\* First loop of load_index over metas[i..]: a record with chunks 0 for every
\* document_id the registry does not hold yet, made from the first of these
\* entries that has the document_id.
AddUnseen(reg, metas, i) ==
    LET ids == {metas[j].document_id : j \in i..Len(metas)}
    IN  [d \in DOMAIN reg \cup ids |->
            IF d \in DOMAIN reg THEN reg[d]
            ELSE LET at == {j \in i..Len(metas) : metas[j].document_id = d}
                     m  == metas[CHOOSE j \in at : \A k \in at : j <= k]
                 IN  [name |-> m.document_name, type |-> m.document_type,
                      path |-> m.source_file, chunks |-> 0]]

\* Second loop of load_index: chunks += 1 for every sampled entry of a
\* registered document.
CountChunks(reg, metas) ==
    [d \in DOMAIN reg |->
        [reg[d] EXCEPT !.chunks =
            reg[d].chunks + Cardinality({i \in 1..Len(metas) : metas[i].document_id = d})]]

Reconstruct(reg, metas) == CountChunks(AddUnseen(reg, metas, 1), metas)

LoadFaults == {"none", "get_collection", "count", "get"}

\* load_index() on an instance whose handle is col and whose registry is reg:
\* the handle and the registry it leaves, and whether it raised.
Loaded(col, reg, fault) ==
    IF store.id = 0 \/ fault = "get_collection"
    THEN [raised |-> TRUE, collection |-> col, documents |-> reg]
    ELSE IF fault \in {"count", "get"}
    THEN [raised |-> TRUE, collection |-> store.id, documents |-> reg]
    ELSE [raised |-> FALSE, collection |-> store.id,
          documents |-> Reconstruct(reg, Sample(store.entries, SampleCap))]

\* load_index(): any exception leaves as ValueError.
LoadIndex(fault) ==
    /\ Settled
    /\ loads < MaxLoads
    /\ loads' = loads + 1
    /\ LET r == Loaded(collection, documents, fault)
       IN  /\ collection' = r.collection
           /\ documents' = r.documents
           /\ lres' = IF r.raised THEN "raised" ELSE "ok"
           /\ everOk' = (everOk \/ ~r.raised)
    /\ UNCHANGED <<store, b, qres, gres>>
    /\ UNCHANGED <<callers, chroma_db, app, ct>>

(* ------------------ IndustrialWebInterface.initialize_system ------------ *)

\* chromadb.PersistentClient(path="./chroma_db"): the client makes the
\* directory when it is absent; the directory exists afterwards.
PersistentClient(dir) == TRUE

InitFaults == LoadFaults \cup {"stats"}

\* initialize_system(): the API key test, a new IndustrialRAGSystem, the test
\* for ./chroma_db, load_index and get_stats; every exception is raised again.
InitializeSystem(key, fault) ==
    /\ app.status = "none"
    /\ IF ~key
       THEN /\ app' = [app EXCEPT !.status = "NoApiKey"]
            /\ UNCHANGED <<chroma_db, collection, documents, everOk>>
       ELSE LET dir == PersistentClient(chroma_db)
                r   == Loaded(None, NoDocuments, IF fault \in LoadFaults THEN fault ELSE "none")
            IN  /\ chroma_db' = dir
                /\ IF ~dir
                   THEN /\ app' = [app EXCEPT !.status = "IndexNotFound"]
                        /\ collection' = None
                        /\ documents' = NoDocuments
                        /\ everOk' = FALSE
                   ELSE /\ collection' = r.collection
                        /\ documents' = r.documents
                        /\ everOk' = ~r.raised
                        /\ app' = [app EXCEPT !.status =
                                        IF r.raised THEN "LoadFailed"
                                        ELSE IF fault = "stats" THEN "error" ELSE "ok"]
    /\ UNCHANGED <<store, b, loads, lres, qres, gres, callers, ct>>

(* ------------------------------- search -------------------------------- *)

\* The where argument of collection.query with the filter always dropped.
WhereFilterNever(document_filter) == NoFilter

\* where_filter: None unless document_filter is truthy and not the sentinel.
WhereFilter(document_filter) ==
    IF document_filter # NoFilter /\ document_filter # "" /\ document_filter # AllDocuments
    THEN document_filter
    ELSE NoFilter

\* The store's distance between a query vector and an entry's: squared L2.
Distance(q, e) == (q - e) * (q - e)

RECURSIVE InsertByDistance(_, _)
\* row put into the ascending sequence sorted, after the rows that are as near.
InsertByDistance(sorted, row) ==
    IF sorted = <<>> THEN <<row>>
    ELSE IF row.distance < Head(sorted).distance THEN <<row>> \o sorted
    ELSE <<Head(sorted)>> \o InsertByDistance(Tail(sorted), row)

RECURSIVE SortByDistance(_, _)
SortByDistance(rows, i) ==
    IF i = 0 THEN <<>>
    ELSE InsertByDistance(SortByDistance(rows, i - 1), rows[i])

\* collection.query(query_embeddings=[q], n_results=k, where=w): the k nearest
\* entries that pass the filter, nearest first, fewer when fewer pass.
StoreQuery(entries, q, k, where) ==
    LET pass == SelectSeq(entries,
                    LAMBDA e : where = NoFilter \/ e.meta.document_name = where)
        rows == [i \in 1..Len(pass) |->
                    [text |-> pass[i].text, meta |-> pass[i].meta, id |-> pass[i].id,
                     distance |-> Distance(q, pass[i].embedding)]]
        near == SortByDistance(rows, Len(rows))
    IN  SubSeq(near, 1, Min(k, Len(near)))

RECURSIVE MaxOf(_, _)
\* max(distances[1..i])
MaxOf(distances, i) ==
    IF i = 1 THEN distances[1]
    ELSE LET m == MaxOf(distances, i - 1)
         IN  IF distances[i] > m THEN distances[i] ELSE m

\* A score as the fraction num/den, den > 0.
One == [num |-> 1, den |-> 1]

\* d / max_dist, the complement to 1 left out.
SimilarityNoComplement(d, max_dist) ==
    IF max_dist > 0 THEN [num |-> d, den |-> max_dist] ELSE One

\* 1 - (d / max_dist) if max_dist > 0 else 1.0, with 0.0 in the else branch.
SimilarityZeroElse(d, max_dist) ==
    IF max_dist > 0 THEN [num |-> max_dist - d, den |-> max_dist] ELSE [num |-> 0, den |-> 1]

\* 1 - (d / max_dist) if max_dist > 0 else 1.0
Similarity(d, max_dist) ==
    IF max_dist > 0 THEN [num |-> max_dist - d, den |-> max_dist] ELSE One

\* list(zip(chunks, similarities, metadatas)), taken in reverse.
FormatResultsReversed(raw) ==
    LET distances == [i \in 1..Len(raw) |-> raw[i].distance]
        max_dist  == IF distances # <<>> THEN MaxOf(distances, Len(distances)) ELSE 1
    IN  [i \in 1..Len(raw) |->
            [chunk |-> raw[Len(raw) + 1 - i].text,
             score |-> Similarity(distances[Len(raw) + 1 - i], max_dist),
             meta  |-> raw[Len(raw) + 1 - i].meta]]

\* Lines 302-310 of search: the similarity scores and the result tuples.
FormatResults(raw) ==
    LET distances == [i \in 1..Len(raw) |-> raw[i].distance]
        max_dist  == IF distances # <<>> THEN MaxOf(distances, Len(distances)) ELSE 1
    IN  [i \in 1..Len(raw) |->
            [chunk |-> raw[i].text,
             score |-> Similarity(distances[i], max_dist),
             meta  |-> raw[i].meta]]

SearchFaults == {"none", "embedding", "store"}

\* search(query, top_k, document_filter) as one call; query is the vector the
\* embedding provider answers for the query text, fault the provider that raises.
SearchCall(query, top_k, document_filter, fault) ==
    LET args == [NoSearch EXCEPT !.query = query, !.top_k = top_k,
                                 !.filter = document_filter, !.fault = fault,
                                 !.everOk = everOk]
        where == WhereFilter(document_filter)
    IN  IF collection = None
        THEN [args EXCEPT !.status = "NotLoaded"]
        ELSE IF fault = "embedding"
        THEN [args EXCEPT !.status = "error", !.embedReqs = 1]
        ELSE IF fault = "store" \/ store.id # collection
        THEN [args EXCEPT !.status = "error", !.embedReqs = 1, !.storeQueries = 1,
                          !.where = where]
        ELSE LET raw == StoreQuery(store.entries, query, top_k, where)
             IN  [args EXCEPT !.status = "ok", !.embedReqs = 1, !.storeQueries = 1,
                              !.where = where, !.raw = raw, !.out = FormatResults(raw)]

Search(query, top_k, document_filter, fault) ==
    /\ Settled
    /\ qres' = SearchCall(query, top_k, document_filter, fault)
    /\ UNCHANGED <<store, collection, documents, b, everOk, loads, lres, gres>>
    /\ UNCHANGED <<callers, chroma_db, app, ct>>

(* -------------------------- generate_response -------------------------- *)

\* f"{score:.2f}": the score in hundredths, rounded to nearest, ties to even.
Hundredths(score) ==
    LET q   == (100 * score.num) \div score.den
        rem == 100 * score.num - q * score.den
    IN  IF 2 * rem > score.den THEN q + 1
        ELSE IF 2 * rem = score.den THEN q + (q % 2)
        ELSE q

\* The labeled blocks numbered as enumerate(results) would, from 0.
ContextPartsFromZero(results) ==
    [i \in 1..Len(results) |->
        [rank      |-> i - 1,
         doc_name  |-> results[i].meta.document_name,
         relevance |-> Hundredths(results[i].score),
         chunk     |-> results[i].chunk]]

\* context_parts: "[Source i - doc_name] (Relevance: score):\nchunk" for the
\* i-th result, i from 1; context joins them with blank lines.
ContextParts(results) ==
    [i \in 1..Len(results) |->
        [rank      |-> i,
         doc_name  |-> results[i].meta.document_name,
         relevance |-> Hundredths(results[i].score),
         chunk     |-> results[i].chunk]]

\* The 'sources' list of the returned dict.
Sources(results) ==
    [i \in 1..Len(results) |->
        [chunk     |-> results[i].chunk,
         relevance |-> results[i].score,
         document  |-> results[i].meta.document_name,
         type      |-> results[i].meta.document_type]]

GenerateFaults == SearchFaults \cup {"completion"}

\* response.choices[0].message.content: what the completion provider answers
\* to the prompt made of the context and the query.
CompletionOf(context, query) == [given |-> TRUE, context |-> context, query |-> query]

\* generate_response that returns early, without a completion request, when
\* the search found nothing.
AnswerSkipsEmpty(found, fault) ==
    IF found.status # "ok"
    THEN [NoAnswer EXCEPT !.status = found.status, !.fault = fault]
    ELSE IF found.out = <<>>
    THEN [NoAnswer EXCEPT !.status = "ok", !.fault = fault]
    ELSE IF fault = "completion"
    THEN [NoAnswer EXCEPT !.status = "error", !.fault = fault, !.completions = 1]
    ELSE [status      |-> "ok",
          fault       |-> fault,
          results     |-> found.out,
          sources     |-> Sources(found.out),
          context     |-> ContextParts(found.out),
          completions |-> 1,
          answer      |-> CompletionOf(ContextParts(found.out), found.query)]

\* Lines 323-383 of generate_response, after search has returned found or
\* raised: the context, one completion request, the returned dict.
Answer(found, fault) ==
    IF found.status # "ok"
    THEN [NoAnswer EXCEPT !.status = found.status, !.fault = fault]
    ELSE IF fault = "completion"
    THEN [NoAnswer EXCEPT !.status = "error", !.fault = fault, !.completions = 1]
    ELSE [status      |-> "ok",
          fault       |-> fault,
          results     |-> found.out,
          sources     |-> Sources(found.out),
          context     |-> ContextParts(found.out),
          completions |-> 1,
          answer      |-> CompletionOf(ContextParts(found.out), found.query)]

\* generate_response(query, top_k, document_filter): search, then the answer.
GenerateResponse(query, top_k, document_filter, fault) ==
    /\ Settled
    /\ LET found == SearchCall(query, top_k, document_filter,
                               IF fault \in SearchFaults THEN fault ELSE "none")
       IN  /\ qres' = found
           /\ gres' = Answer(found, fault)
    /\ UNCHANGED <<store, collection, documents, b, everOk, loads, lres>>
    /\ UNCHANGED <<callers, chroma_db, app, ct>>

(* --------------------- IndustrialWebInterface.chat ---------------------- *)

\* top_k of the generate_response call chat makes
ChatTopK == 5

\* What the user submits: nothing, spaces only, or text with spaces around it.
Messages == {<<>>, <<" ", " ">>, <<"a">>, <<" ", "a", " ">>}

\* The choices of the document dropdown.
ChatFilters == {AllDocuments, "Directive 001", "Directive 017"}

\* The vector the embedding provider answers for the message.
QueryOf(message) == Len(message) % (MaxEmb + 1)

\* not message or not message.strip(), when only the empty message is refused
BlankOnlyEmpty(message) == message = <<>>

\* not message or not message.strip()
Blank(message) == message = <<>> \/ Strip(message) = <<>>

\* The content of a history entry: the text the user typed, the placeholder
\* "Searching directives...", the answer of generate_response, or error_msg.
UserText(message) ==
    [kind |-> "user", text |-> message, answer |-> NoCompletion, e |-> "none"]

Searching ==
    [kind |-> "placeholder", text |-> <<>>, answer |-> NoCompletion, e |-> "none"]

AnswerText(answer) ==
    [kind |-> "answer", text |-> <<>>, answer |-> answer, e |-> "none"]

\* f"Error processing query: {str(e)}\n\nPlease try rephrasing your question."
ErrorMsg(e) ==
    [kind |-> "rephrase", text |-> <<>>, answer |-> NoCompletion, e |-> e]

\* history[-1]['content'] = content
SetLast(history, content) ==
    [history EXCEPT ![Len(history)] = [@ EXCEPT !.content = content]]

\* document_filter if document_filter != "All Documents" else None
ChatFilter(document_filter) ==
    IF document_filter = AllDocuments THEN NoFilter ELSE document_filter

\* The record chat appends to conversation_history.
Logged(message, document_filter, response) ==
    [query |-> message, answer |-> response.answer, sources |-> response.sources,
     filter |-> document_filter]

\* chat that logs the exchange whether generate_response returned or raised
AfterResponseLogsAll(history, log, message, document_filter, response) ==
    [history |-> SetLast(history, IF response.status = "ok"
                                  THEN AnswerText(response.answer)
                                  ELSE ErrorMsg(response.status)),
     conversation_history |-> Append(log, Logged(message, document_filter, response))]

\* Lines 64-81 of chat, after generate_response has returned response or
\* raised: the history yielded last and the conversation log.
AfterResponse(history, log, message, document_filter, response) ==
    IF response.status = "ok"
    THEN [history |-> SetLast(history, AnswerText(response.answer)),
          conversation_history |-> Append(log, Logged(message, document_filter, response))]
    ELSE [history |-> SetLast(history, ErrorMsg(response.status)),
          conversation_history |-> log]

\* chat(message, history, document_filter) is called by submit_and_clear with
\* the value of the Chatbot component, up to its first yield: a blank message
\* returns at once and nothing is yielded; otherwise the user message and the
\* placeholder are appended and the history is yielded to the component.
ChatCall(message, document_filter) ==
    /\ app.status = "ok"
    /\ Settled
    /\ app.chat.pc # "yielded"
    /\ app.chats < MaxChats
    /\ LET pre == [chatbot |-> app.chatbot,
                   conversation_history |-> app.conversation_history,
                   requests |-> app.requests,
                   collection |-> collection, documents |-> documents]
           call == [NoChat EXCEPT !.message = message,
                                  !.document_filter = document_filter,
                                  !.pre = pre]
       IN  IF Blank(message)
           THEN app' = [app EXCEPT !.chats = @ + 1,
                                   !.chat = [call EXCEPT !.pc = "returned",
                                                         !.history = app.chatbot]]
           ELSE LET history == app.chatbot
                                \o <<[role |-> "user", content |-> UserText(message)],
                                     [role |-> "assistant", content |-> Searching]>>
                IN  app' = [app EXCEPT !.chats = @ + 1,
                                       !.chatbot = history,
                                       !.chat = [call EXCEPT !.pc = "yielded",
                                                             !.history = history]]
    /\ UNCHANGED <<store, collection, documents, b, everOk, loads, lres, qres, gres,
                   callers, chroma_db, ct>>

\* chat from its first yield to its end: generate_response, then the answer
\* or the error message in the last entry, yielded to the component.
ChatRespond(fault) ==
    /\ app.chat.pc = "yielded"
    /\ LET call == app.chat
           found == SearchCall(QueryOf(call.message), ChatTopK,
                               ChatFilter(call.document_filter),
                               IF fault \in SearchFaults THEN fault ELSE "none")
           response == Answer(found, fault)
           after == AfterResponse(call.history, app.conversation_history,
                                  call.message, call.document_filter, response)
       IN  app' = [app EXCEPT !.conversation_history = after.conversation_history,
                              !.chatbot = after.history,
                              !.requests = @ + found.embedReqs + response.completions,
                              !.chat = [call EXCEPT
                                          !.pc = IF response.status = "ok"
                                                 THEN "answered" ELSE "failed",
                                          !.history = after.history,
                                          !.found = found,
                                          !.response = response]]
    /\ UNCHANGED <<store, collection, documents, b, everOk, loads, lres, qres, gres,
                   callers, chroma_db, ct>>

(* --------------- search and generate_response, step by step ------------ *)

\* A store whose readers see, while a rebuild runs, the collection as it was
\* before that rebuild began.
VisibleBeforeBuild(st, build) ==
    IF build.pc # "idle" THEN build.pre.store ELSE st

\* What a collection.query reads of the store while build is in progress:
\* the store as it is at that moment.
Visible(st, build) == st

\* A query embedding kept in a field the callers share: the one of the
\* lowest-numbered caller that has one.
QueryEmbeddingShared(cs, c) ==
    LET have == {x \in DOMAIN cs : cs[x].query_embedding # NoEmbedding}
    IN  cs[CHOOSE x \in have : \A y \in have : x <= y].query_embedding

\* query_embedding, a local of search: the one of caller c.
QueryEmbedding(cs, c) == cs[c].query_embedding

\* Caller c calls search or generate_response.
CallStart(c, kind, query, top_k, document_filter) ==
    /\ callers[c].pc = "idle"
    /\ callers' = [callers EXCEPT ![c] =
            [NoCall EXCEPT !.pc = "check", !.kind = kind,
                           !.found = [NoSearch EXCEPT !.query = query, !.top_k = top_k,
                                                      !.filter = document_filter,
                                                      !.everOk = everOk],
                           !.pre = [store |-> store, collection |-> collection,
                                    documents |-> documents]]]
    /\ UNCHANGED <<store, collection, documents, b, everOk, loads, lres, qres, gres,
                   chroma_db, app, ct>>

\* The end of caller c's search: a search call returns or raises, a
\* generate_response call raises or goes on to its completion request.
AfterSearch(call, found) ==
    IF call.kind = "search"
    THEN [call EXCEPT !.pc = "done", !.found = found]
    ELSE IF found.status = "ok"
    THEN [call EXCEPT !.pc = "complete", !.found = found]
    ELSE [call EXCEPT !.pc = "done", !.found = found, !.answer = Answer(found, found.fault)]

\* if self.collection is None: raise ValueError
CallCheck(c) ==
    /\ callers[c].pc = "check"
    /\ callers' = [callers EXCEPT ![c] =
            IF collection = None
            THEN AfterSearch(@, [@.found EXCEPT !.status = "NotLoaded"])
            ELSE [@ EXCEPT !.pc = "embed"]]
    /\ UNCHANGED <<store, collection, documents, b, everOk, loads, lres, qres, gres,
                   chroma_db, app, ct>>

\* self.client.embeddings.create(input=[query]): raises, or answers the
\* query's vector.
CallEmbed(c) ==
    /\ callers[c].pc = "embed"
    /\ \/ callers' = [callers EXCEPT ![c] =
                AfterSearch(@, [@.found EXCEPT !.status = "error", !.fault = "embedding",
                                               !.embedReqs = 1])]
       \/ callers' = [callers EXCEPT ![c] =
                [@ EXCEPT !.pc = "query", !.query_embedding = callers[c].found.query,
                          !.found.embedReqs = 1]]
    /\ UNCHANGED <<store, collection, documents, b, everOk, loads, lres, qres, gres,
                   chroma_db, app, ct>>

\* The where filter, self.collection.query, which raises or answers, and the
\* scores.
CallQuery(c) ==
    /\ callers[c].pc = "query"
    /\ LET call  == callers[c]
           where == WhereFilter(call.found.filter)
           st    == Visible(store, b)
           seen  == [pc |-> b.pc, absent |-> st.id = 0]
           asked == [call.found EXCEPT !.storeQueries = 1, !.where = where]
       IN  \/ callers' = [callers EXCEPT ![c] =
                    AfterSearch([call EXCEPT !.seen = seen],
                                [asked EXCEPT !.status = "error", !.fault = "store"])]
           \/ callers' = [callers EXCEPT ![c] =
                    AfterSearch([call EXCEPT !.seen = seen],
                        IF st.id # collection
                        THEN [asked EXCEPT !.status = "error"]
                        ELSE LET raw == StoreQuery(st.entries, QueryEmbedding(callers, c),
                                                   call.found.top_k, where)
                             IN  [asked EXCEPT !.status = "ok", !.raw = raw,
                                               !.out = FormatResults(raw)])]
    /\ UNCHANGED <<store, collection, documents, b, everOk, loads, lres, qres, gres,
                   chroma_db, app, ct>>

\* The context, self.client.chat.completions.create, which raises or
\* answers, and the returned dict.
CallComplete(c) ==
    /\ callers[c].pc = "complete"
    /\ \E fault \in {"none", "completion"} :
            callers' = [callers EXCEPT ![c] =
                [@ EXCEPT !.pc = "done", !.answer = Answer(callers[c].found, fault)]]
    /\ UNCHANGED <<store, collection, documents, b, everOk, loads, lres, qres, gres,
                   chroma_db, app, ct>>

\* Caller c takes what its call returned or raised.
CallReturn(c) ==
    /\ callers[c].pc = "done"
    /\ callers' = [callers EXCEPT ![c] = NoCall]
    /\ UNCHANGED <<store, collection, documents, b, everOk, loads, lres, qres, gres,
                   chroma_db, app, ct>>

(* --------------------------- specification ----------------------------- *)

Init ==
    /\ store = NoStore
    /\ collection = None
    /\ documents = NoDocuments
    /\ b = IdleBuild
    /\ everOk = FALSE
    /\ loads = 0
    /\ lres = "none"
    /\ qres = NoSearch
    /\ gres = NoAnswer
    /\ OnlyInstance

Next ==
    \/ \E docs \in DocLists : BuildStart(docs)
    \/ BuildAddDocument
    \/ BuildEmbed
    \/ BuildDelete
    \/ BuildCreate
    \/ BuildInsert
    \/ BuildReport
    \/ Resume
    \/ NewInstance
    \/ \E fault \in LoadFaults : LoadIndex(fault)
    \/ \E fault \in SearchFaults : Search(0, MaxTopK, NoFilter, fault)
    \/ \E fault \in GenerateFaults : GenerateResponse(0, MaxTopK, NoFilter, fault)

\* One instance from its construction on: builds, reloads, new instances over
\* the same store, and unfiltered queries.
Spec == Init /\ [][Next]_vars

RECURSIVE BuiltRows(_, _)
\* all_chunks and all_metadatas after the loop over docs[1..i].
BuiltRows(docs, i) ==
    IF i = 0 THEN <<>> ELSE BuiltRows(docs, i - 1) \o DocRows(docs[i])

RECURSIVE BuiltRegistry(_, _)
\* self.documents of a new instance after the loop over docs[1..i].
BuiltRegistry(docs, i) ==
    IF i = 0 THEN NoDocuments
    ELSE Register(BuiltRegistry(docs, i - 1), docs[i], Len(DocRows(docs[i])))

\* The store after build_index(docs), the run-th build, has returned.
BuiltStore(docs, run) ==
    LET rows == BuiltRows(docs, Len(docs))
        embs == [i \in 1..Len(rows) |-> EmbeddingOf(rows[i].text)]
    IN  [id |-> run, entries |-> NewEntries(rows, embs, run)]

\* An instance whose build_index(docs), its run-th, has returned and whose
\* caller has gone on; docs have at least one chunk, or the build had raised.
Built(docs, run) ==
    /\ BuiltRows(docs, Len(docs)) # <<>>
    /\ store = BuiltStore(docs, run)
    /\ collection = run
    /\ documents = BuiltRegistry(docs, Len(docs))
    /\ b = [IdleBuild EXCEPT !.no = run]
    /\ everOk = TRUE
    /\ loads = 0
    /\ lres = "none"
    /\ qres = NoSearch
    /\ gres = NoAnswer
    /\ OnlyInstance

\* A new instance over the store such a build has left.
BuiltEarlier(docs, run) ==
    /\ BuiltRows(docs, Len(docs)) # <<>>
    /\ store = BuiltStore(docs, run)
    /\ collection = None
    /\ documents = NoDocuments
    /\ b = [IdleBuild EXCEPT !.no = run]
    /\ everOk = FALSE
    /\ loads = 0
    /\ lres = "none"
    /\ qres = NoSearch
    /\ gres = NoAnswer
    /\ OnlyInstance

\* A new instance over a store without collection, run builds having failed
\* before their create-collection step.
NeverBuilt(run) ==
    /\ store = NoStore
    /\ collection = None
    /\ documents = NoDocuments
    /\ b = [IdleBuild EXCEPT !.no = run]
    /\ everOk = FALSE
    /\ loads = 0
    /\ lres = "none"
    /\ qres = NoSearch
    /\ gres = NoAnswer
    /\ OnlyInstance

InitQuery == \E docs \in DocLists : Built(docs, 1)

NextQuery ==
    \/ Resume
    \/ \E query \in 0..MaxEmb, top_k \in 1..MaxTopK, f \in Filters, fault \in SearchFaults :
            Search(query, top_k, f, fault)
    \/ \E query \in 0..MaxEmb, top_k \in 1..MaxTopK, f \in Filters, fault \in GenerateFaults :
            GenerateResponse(query, top_k, f, fault)

\* The query path against every collection a build leaves: every query
\* vector, top_k, filter and provider fault.
SpecQuery == InitQuery /\ [][NextQuery]_vars

\* Before the last build of a run: nothing built yet, or an earlier build
\* has returned, on this instance or on one before it.
InitBuild ==
    \/ NeverBuilt(MaxBuilds - 1)
    \/ \E docs \in DocLists : Built(docs, MaxBuilds - 1)
    \/ \E docs \in DocLists : BuiltEarlier(docs, MaxBuilds - 1)

NextBuild ==
    \/ \E docs \in DocLists : BuildStart(docs)
    \/ BuildAddDocument
    \/ BuildEmbed
    \/ BuildDelete
    \/ BuildCreate
    \/ BuildInsert
    \/ BuildReport

\* One build_index call, step by step, over every store an earlier build
\* leaves.
SpecBuild == InitBuild /\ [][NextBuild]_vars

\* The documents of main(): the collection the web application reads.
MainDocs == <<DocA, DocC>>

InitConcurrent == Built(MainDocs, 1) \/ Built(<<DocC>>, 1)

NextConcurrent ==
    \/ \E c \in Callers, kind \in {"search", "generate"}, query \in {0, MaxEmb},
          f \in {NoFilter, "Directive 017"} : CallStart(c, kind, query, MaxTopK, f)
    \/ \E c \in Callers : CallCheck(c)
    \/ \E c \in Callers : CallEmbed(c)
    \/ \E c \in Callers : CallQuery(c)
    \/ \E c \in Callers : CallComplete(c)
    \/ \E c \in Callers : CallReturn(c)

\* Callers inside search and generate_response at the same time, on one
\* instance whose collection no build touches.
SpecConcurrent == InitConcurrent /\ [][NextConcurrent]_vars

\* A rebuild of the collection the instance has loaded, with caller 1 inside
\* search while build_index runs.
InitRace == Built(MainDocs, MaxBuilds - 1)

NextRace ==
    \/ \E docs \in DocLists : BuildStart(docs)
    \/ BuildAddDocument
    \/ BuildEmbed
    \/ BuildDelete
    \/ BuildCreate
    \/ BuildInsert
    \/ BuildReport
    \/ CallStart(1, "search", 0, MaxTopK, NoFilter)
    \/ CallCheck(1)
    \/ CallEmbed(1)
    \/ CallQuery(1)
    \/ CallReturn(1)

SpecRace == InitRace /\ [][NextRace]_vars

\* The web application is started: over no ./chroma_db directory, over a
\* directory without collection, or over the collection a build has left.
InitApp ==
    /\ \/ /\ store = NoStore
          /\ chroma_db \in BOOLEAN
       \/ /\ \E docs \in DocLists :
                /\ BuiltRows(docs, Len(docs)) # <<>>
                /\ store = BuiltStore(docs, 1)
          /\ chroma_db = TRUE
    /\ app = [NoApp EXCEPT !.dirAtStart = chroma_db]
    /\ collection = None
    /\ documents = NoDocuments
    /\ b = IdleBuild
    /\ everOk = FALSE
    /\ loads = 0
    /\ lres = "none"
    /\ qres = NoSearch
    /\ gres = NoAnswer
    /\ callers = [c \in Callers |-> NoCall]
    /\ ct = NoChunking

NextApp ==
    \/ \E key \in BOOLEAN, fault \in InitFaults : InitializeSystem(key, fault)
    \/ \E query \in 0..MaxEmb, f \in Filters, fault \in GenerateFaults :
            app.status = "ok" /\ GenerateResponse(query, MaxTopK, f, fault)
    \/ Resume

\* The web application from its start: initialize_system, then the queries
\* of its users.
SpecApp == InitApp /\ [][NextApp]_vars

\* chunk_text called with a text, a chunk size and an overlap below it.
InitChunk ==
    /\ \E text \in Texts, chunk_size \in 1..MaxChunkSize :
          \E overlap \in 0..(chunk_size - 1) : ct = ChunkCall(text, chunk_size, overlap)
    /\ store = NoStore
    /\ collection = None
    /\ documents = NoDocuments
    /\ b = IdleBuild
    /\ everOk = FALSE
    /\ loads = 0
    /\ lres = "none"
    /\ qres = NoSearch
    /\ gres = NoAnswer
    /\ callers = [c \in Callers |-> NoCall]
    /\ chroma_db = TRUE
    /\ app = NoApp

NextChunk ==
    \/ ChunkStep
    \/ ChunkReturn

\* chunk_text, one round of its loop at a time.
SpecChunk == InitChunk /\ [][NextChunk]_vars

\* The document lists of the collections an application may find: those of
\* DocLists, and two with a document of more chunks than load_index samples
\* together with a short one, before it and after it.
LoadDocLists == DocLists \cup {<<DocC, DocE>>, <<DocE, DocC>>}

\* Before a load_index: the instance that built the collection, a new
\* instance over it, or a new instance over a store without collection.
InitLoad ==
    \/ \E docs \in LoadDocLists : Built(docs, 1)
    \/ \E docs \in LoadDocLists : BuiltEarlier(docs, 1)
    \/ NeverBuilt(0)

NextLoad ==
    \/ \E fault \in LoadFaults : LoadIndex(fault)
    \/ Resume
    \/ NewInstance

\* New instances over a collection a build has left, and their load_index.
SpecLoad == InitLoad /\ [][NextLoad]_vars

\* The web application is started over the collection a build has left.
InitChat ==
    /\ \E docs \in {MainDocs, <<DocC>>} : store = BuiltStore(docs, 1)
    /\ chroma_db = TRUE
    /\ app = NoApp
    /\ collection = None
    /\ documents = NoDocuments
    /\ b = IdleBuild
    /\ everOk = FALSE
    /\ loads = 0
    /\ lres = "none"
    /\ qres = NoSearch
    /\ gres = NoAnswer
    /\ callers = [c \in Callers |-> NoCall]
    /\ ct = NoChunking

NextChat ==
    \/ \E key \in BOOLEAN, fault \in InitFaults : InitializeSystem(key, fault)
    \/ \E message \in Messages, f \in ChatFilters : ChatCall(message, f)
    \/ \E fault \in GenerateFaults : ChatRespond(fault)

\* The web application and the messages its user submits.  generate_response
\* blocks the handler until the providers have answered or raised, and the
\* handler then runs to its end.
SpecChat ==
    /\ InitChat
    /\ [][NextChat]_vars
    /\ WF_vars(\E fault \in GenerateFaults : ChatRespond(fault))

(* ----------------------------- properties ------------------------------ *)

\* x >= y for scores x and y
ScoreGeq(x, y) == x.num * y.den >= y.num * x.den

IsOne(score) == score.num = score.den

IsZero(score) == score.num = 0

\* C1: a build_index over a collection with entries that fails at the
\* embedding, delete-collection or create-collection step leaves the stored
\* collection as it was before the call: the same collection with the same
\* entries.
C1_RebuildIsolation ==
    (b.outcome = "raised" /\ b.failStep \in {"embed", "delete", "create"}
        /\ b.pre.store.entries # <<>>)
        => store = b.pre.store

\* C2: when the extraction of a document or an embedding batch fails, the
\* build ends with the error raised, no store operation (delete, create,
\* insert) was issued in that run and the store is as it was.
C2_NoStoreOpOnEarlyFailure ==
    b.failStep \in {"extract", "embed"}
        => /\ b.pc = "idle"
           /\ b.outcome = "raised"
           /\ b.ops = <<>>
           /\ store = b.pre.store

\* A rebuild over a collection with entries has failed in an embedding batch.
C2_Witness ==
    /\ b.failStep = "embed"
    /\ b.pre.store.entries # <<>>

\* C3: in every state, the entries of the stored collection all come from
\* one build run.
C3_SingleBuild ==
    \A i, j \in 1..Len(store.entries) : store.entries[i].run = store.entries[j].run

\* A build over a collection with entries has failed in the insert,
\* after part of its rows was written.
C3_Witness ==
    /\ b.failStep = "insert"
    /\ b.pre.store.entries # <<>>
    /\ store.entries # <<>>

\* C4: a build_index that raises leaves self.documents and self.collection
\* as they were before the call.
C4_AllOrNothing ==
    [][(b.pc # "idle" /\ b'.outcome = "raised")
          => (documents' = b.pre.documents /\ collection' = b.pre.collection)]_vars

\* C5: while no build_index or load_index has returned normally on this
\* instance, search fails with NotLoaded and asks nothing of the embedding
\* provider or the store.
C5_NotLoadedBeforeSuccess ==
    (qres.status # "none" /\ ~qres.everOk)
        => /\ qres.status = "NotLoaded"
           /\ qres.embedReqs = 0
           /\ qres.storeQueries = 0

\* The filter names a document: it is neither absent nor the sentinel.
NamesDocument(f) == f \notin {NoFilter, AllDocuments}

NoEntryNamed(f) == \A i \in 1..Len(store.entries) : store.entries[i].meta.document_name # f

\* C6 as the specification states it: with the filter absent or "All Documents" the store is
\* queried with no filter; with any other string F every result is of the
\* document named F, and the result is the empty list, not an error, when no
\* entry has that name.
C6_FilterAnyString ==
    /\ (qres.storeQueries = 1 /\ ~NamesDocument(qres.filter)) => qres.where = NoFilter
    /\ (qres.status = "ok" /\ NamesDocument(qres.filter))
          => \A i \in 1..Len(qres.out) : qres.out[i].meta.document_name = qres.filter
    /\ (qres.status # "none" /\ qres.fault = "none" /\ collection = store.id
            /\ NamesDocument(qres.filter) /\ NoEntryNamed(qres.filter))
          => (qres.status = "ok" /\ qres.out = <<>>)

\* C6 amended: with the filter absent, empty or "All Documents" the store is
\* queried with no filter; with any other string F every result is of the
\* document named F, and the result is the empty list, not an error, when no
\* entry has that name.
C6_Filter ==
    /\ (qres.storeQueries = 1 /\ (~NamesDocument(qres.filter) \/ qres.filter = ""))
          => qres.where = NoFilter
    /\ (qres.status = "ok" /\ NamesDocument(qres.filter) /\ qres.filter # "")
          => \A i \in 1..Len(qres.out) : qres.out[i].meta.document_name = qres.filter
    /\ (qres.status # "none" /\ qres.fault = "none" /\ collection = store.id
            /\ NamesDocument(qres.filter) /\ qres.filter # "" /\ NoEntryNamed(qres.filter))
          => (qres.status = "ok" /\ qres.out = <<>>)

\* A search filtered to "Directive 017" has returned results from a
\* collection that also holds entries of another document.
C6_Witness ==
    /\ qres.status = "ok"
    /\ qres.filter = "Directive 017"
    /\ qres.out # <<>>
    /\ ~NoEntryNamed("Directive 001")

\* C7: in a non-empty result set every score lies in [0,1], and a result
\* with the smallest raw distance has a score at least every other score.
C7_NormalizationBound ==
    (qres.status = "ok" /\ qres.out # <<>>)
        => /\ \A i \in 1..Len(qres.out) :
                /\ qres.out[i].score.den > 0
                /\ 0 <= qres.out[i].score.num
                /\ qres.out[i].score.num <= qres.out[i].score.den
           /\ \A i \in 1..Len(qres.out) :
                (\A j \in 1..Len(qres.raw) : qres.raw[i].distance <= qres.raw[j].distance)
                    => \A j \in 1..Len(qres.out) : ScoreGeq(qres.out[i].score, qres.out[j].score)

\* A result set with three different distances: one score lies strictly
\* between 0 and 1.
C7_Witness ==
    /\ qres.status = "ok"
    /\ Len(qres.out) = 3
    /\ qres.raw[1].distance < qres.raw[2].distance
    /\ qres.raw[2].distance < qres.raw[3].distance
    /\ 0 < qres.out[2].score.num
    /\ qres.out[2].score.num < qres.out[2].score.den

AllDistancesZero == \A i \in 1..Len(qres.raw) : qres.raw[i].distance = 0

\* C8 as the specification states it: when the result set has exactly one result, or every raw
\* distance in it is zero, every score is 1.
C8_DegenerateAllOne ==
    (qres.status = "ok" /\ qres.out # <<>> /\ (Len(qres.out) = 1 \/ AllDistancesZero))
        => \A i \in 1..Len(qres.out) : IsOne(qres.out[i].score)

\* C8 amended: when every raw distance of a non-empty result set is zero,
\* every score is 1; a single result at a positive distance scores 0.
C8_Degenerate ==
    /\ (qres.status = "ok" /\ qres.out # <<>> /\ AllDistancesZero)
          => \A i \in 1..Len(qres.out) : IsOne(qres.out[i].score)
    /\ (qres.status = "ok" /\ Len(qres.out) = 1 /\ qres.raw[1].distance > 0)
          => IsZero(qres.out[1].score)

\* Two results, both at distance zero.
C8_Witness ==
    /\ qres.status = "ok"
    /\ Len(qres.out) = 2
    /\ AllDistancesZero

\* C9: search returns at most top_k results, the i-th carrying the text and
\* metadata of the store's i-th result; the store answering by ascending
\* distance, the scores do not increase.
C9_StoreOrder ==
    qres.status = "ok"
        => /\ Len(qres.out) <= qres.top_k
           /\ Len(qres.out) = Len(qres.raw)
           /\ \A i \in 1..Len(qres.out) :
                /\ qres.out[i].chunk = qres.raw[i].text
                /\ qres.out[i].meta = qres.raw[i].meta
           /\ (\A i \in 1..(Len(qres.raw) - 1) : qres.raw[i].distance <= qres.raw[i + 1].distance)
                => \A i \in 1..(Len(qres.out) - 1) :
                        ScoreGeq(qres.out[i].score, qres.out[i + 1].score)

\* top_k results out of a larger collection, the first two of them tied and
\* the last one farther.
C9_Witness ==
    /\ qres.status = "ok"
    /\ qres.top_k = 3
    /\ Len(qres.out) = 3
    /\ Len(store.entries) > 3
    /\ qres.raw[1].distance = qres.raw[2].distance
    /\ qres.raw[2].distance < qres.raw[3].distance

\* C10: generate_response returns one source per search result, in the
\* order of the search, and a context of one block per result in that order:
\* block i is numbered i and carries the i-th result's document name, its
\* score to two decimals and its chunk text.
C10_SourcesAndContext ==
    gres.status = "ok"
        => /\ gres.results = qres.out
           /\ Len(gres.sources) = Len(qres.out)
           /\ Len(gres.context) = Len(qres.out)
           /\ \A i \in 1..Len(qres.out) :
                /\ gres.sources[i].chunk = qres.out[i].chunk
                /\ gres.sources[i].relevance = qres.out[i].score
                /\ gres.sources[i].document = qres.out[i].meta.document_name
                /\ gres.sources[i].type = qres.out[i].meta.document_type
                /\ gres.context[i].rank = i
                /\ gres.context[i].doc_name = qres.out[i].meta.document_name
                /\ gres.context[i].chunk = qres.out[i].chunk
                /\ LET h == gres.context[i].relevance
                       x == qres.out[i].score
                   IN  /\ 2 * (100 * x.num - h * x.den) <= x.den
                       /\ 2 * (h * x.den - 100 * x.num) <= x.den

\* An answer over three results of two documents, one of them with a score
\* that two decimals only approximate.
C10_Witness ==
    /\ gres.status = "ok"
    /\ Len(gres.sources) = 3
    /\ \E i, j \in 1..3 : gres.sources[i].document # gres.sources[j].document
    /\ \E i \in 1..3 :
          gres.context[i].relevance * gres.sources[i].relevance.den
              # 100 * gres.sources[i].relevance.num

\* C11: when the search of a generate_response call returns no result and
\* the completion provider answers, the call does not raise: it has made
\* exactly one completion request and returns the provider's answer to the
\* empty context, with no sources and an empty context.
C11_EmptyRetrieval ==
    (gres.status # "none" /\ qres.status = "ok" /\ qres.out = <<>>)
        => /\ gres.completions = 1
           /\ gres.fault # "completion"
                => /\ gres.status = "ok"
                   /\ gres.answer = CompletionOf(<<>>, qres.query)
                   /\ gres.sources = <<>>
                   /\ gres.context = <<>>

\* An answer to a query filtered to a name no document has, over a collection
\* with entries.
C11_Witness ==
    /\ gres.status = "ok"
    /\ qres.filter = "Nonexistent Doc"
    /\ qres.out = <<>>
    /\ store.entries # <<>>
    /\ gres.completions = 1

\* What the search of caller c returns when it runs alone, the providers
\* answering or raising as they did in the call.
AloneFound(c) ==
    LET f == callers[c].found
    IN  SearchCall(f.query, f.top_k, f.filter, f.fault)

\* C12: while callers are inside search and generate_response, the
\* collection handle, the registry and the stored entries are those each call
\* found when it began; and a call that has ended, by return or by a provider
\* error, has the result the same call gives when it runs alone.
C12_QueryPathReadOnly ==
    \A c \in Callers :
        /\ callers[c].pc # "idle"
              => callers[c].pre = [store |-> store, collection |-> collection,
                                   documents |-> documents]
        /\ callers[c].pc = "done"
              => /\ callers[c].found = AloneFound(c)
                 /\ callers[c].kind = "generate"
                      => callers[c].answer = Answer(AloneFound(c), callers[c].answer.fault)

\* Two calls with different queries have run at the same time to their end:
\* a search that returned results and a generate_response that returned an
\* answer.
C12_Witness ==
    \E c, d \in Callers :
        /\ callers[c].pc = "done" /\ callers[c].kind = "search"
        /\ callers[d].pc = "done" /\ callers[d].kind = "generate"
        /\ callers[c].found.status = "ok" /\ callers[c].found.out # <<>>
        /\ callers[d].answer.status = "ok"
        /\ callers[c].found.query # callers[d].found.query
        /\ callers[c].found.out # callers[d].found.out

\* C13: when the application is started with an API key and the directory
\* ./chroma_db is absent, initialize_system fails with the "index not found,
\* run the ingestion first" error, not with the error of a failed load.
C13_IndexNotFound ==
    (app.status \notin {"none", "NoApiKey"} /\ ~app.dirAtStart)
        => app.status = "IndexNotFound"

\* C14: on every iteration of chunk_text, with chunk_size > 0 and
\* 0 <= overlap < chunk_size, the window start rises strictly and is never
\* negative, so that the loop ends.
C14_StartIncreases ==
    ct.iter > 0 => (ct.start > ct.prev /\ ct.start >= 0)

\* The windows of the rounds that appended a chunk, in order.
EmittedWindows == SelectSeq(ct.windows, LAMBDA w : w.emitted)

\* The positions of the text both windows read.
SharedPositions(v, w) == {p \in v.lo..(v.hi - 1) : w.lo <= p /\ p < w.hi}

\* C15: with overlap < chunk_size, two consecutive chunks of chunk_text
\* share at most overlap characters of the text: the end of the earlier
\* window minus the start of the later one is at most overlap, and so is the
\* number of text positions both windows read.
C15_OverlapBound ==
    \A i \in 1..(Len(EmittedWindows) - 1) :
        /\ EmittedWindows[i].end - EmittedWindows[i + 1].start <= ct.overlap
        /\ Cardinality(SharedPositions(EmittedWindows[i], EmittedWindows[i + 1])) <= ct.overlap

\* chunk_text has returned three chunks, a window cut at a sentence end among
\* them, and two consecutive ones share exactly overlap characters.
C15_Witness ==
    /\ ct.pc = "done"
    /\ Len(ct.chunks) = 3
    /\ ct.overlap > 0
    /\ \E i \in 1..Len(ct.windows) : ct.windows[i].end < ct.windows[i].start + ct.chunk_size
                                        /\ ct.windows[i].end < Len(ct.text)
    /\ \E i \in 1..(Len(EmittedWindows) - 1) :
          Cardinality(SharedPositions(EmittedWindows[i], EmittedWindows[i + 1])) = ct.overlap

\* s without its whitespace characters
NonSpace(s) == SelectSeq(s, LAMBDA ch : ch # " ")

RECURSIVE CoveredUpTo(_)
\* The position up to which the first i chunks reach in the text.
CoveredUpTo(i) ==
    IF i = 0 THEN 0 ELSE Max(CoveredUpTo(i - 1), EmittedWindows[i].to)

RECURSIVE NewPortions(_)
\* The first i chunks joined, each without the characters it shares with
\* the chunks before it.
NewPortions(i) ==
    IF i = 0 THEN <<>>
    ELSE LET w    == EmittedWindows[i]
             skip == Max(CoveredUpTo(i - 1) - w.from, 0)
         IN  NewPortions(i - 1) \o SubSeq(ct.chunks[i], skip + 1, Len(ct.chunks[i]))

\* What chunk_text returns covers the text: the first window begins at 0,
\* each next one begins no later than the one before it ends, and the last
\* reaches the end of the text; a window that gave no chunk read only
\* whitespace; every chunk is the stripped text of its window; the chunks
\* joined without their overlapping portions are the text up to whitespace;
\* and a text that is empty or only whitespace gives no chunk.
Coverage ==
    /\ Len(ct.chunks) = Len(EmittedWindows)
    /\ ct.text # <<>>
         => /\ ct.windows[1].start = 0
            /\ \A k \in 1..(Len(ct.windows) - 1) :
                  ct.windows[k + 1].start <= ct.windows[k].end
            /\ ct.windows[Len(ct.windows)].end >= Len(ct.text)
    /\ \A k \in 1..Len(ct.windows) :
          ~ct.windows[k].emitted
             => NonSpace(SubSeq(ct.text, ct.windows[k].lo + 1, ct.windows[k].hi)) = <<>>
    /\ \A i \in 1..Len(ct.chunks) :
          /\ ct.chunks[i] = SubSeq(ct.text, EmittedWindows[i].from + 1, EmittedWindows[i].to)
          /\ ct.chunks[i] = Strip(SubSeq(ct.text, EmittedWindows[i].lo + 1,
                                         EmittedWindows[i].hi))
    /\ NonSpace(NewPortions(Len(ct.chunks))) = NonSpace(ct.text)
    /\ NonSpace(ct.text) = <<>> => ct.chunks = <<>>

\* A call of chunk_text that returns covers the text.
CoverageAtReturn == ct.pc = "done" => Coverage

\* C16: for every text and every overlap < chunk_size, chunk_text returns
\* chunks whose windows cover the text without gaps, as Coverage says: the
\* loop is not still running after MaxIter rounds, when it can no longer
\* end, and what is returned covers the text.
C16_CoversText ==
    /\ CoverageAtReturn
    /\ (ct.pc = "loop" /\ ct.iter = MaxIter) => ct.start >= Len(ct.text)

RECURSIVE ChunksBefore(_, _)
\* The number of chunks of the documents before the k-th of docs.
ChunksBefore(docs, k) ==
    IF k = 1 THEN 0 ELSE ChunksBefore(docs, k - 1) + FileChunks(docs[k - 1].path)

\* C17: after a build_index that returned normally the collection holds one
\* entry per chunk of this run and none of an earlier build; entry i has the
\* identifier chunk_(i-1), so the identifiers differ pairwise; and the j-th
\* chunk (from 0) of the k-th document is the entry after all chunks of the
\* documents before it, with that chunk's text, its embedding, the document's
\* metadata and chunk_index j.
C17_EntriesOfThisRun ==
    b.outcome = "ok"
        => /\ Len(store.entries) = ChunksBefore(b.docs, Len(b.docs) + 1)
           /\ \A i \in 1..Len(store.entries) :
                /\ store.entries[i].run = b.no
                /\ store.entries[i].id = <<"chunk", i - 1>>
           /\ \A i, j \in 1..Len(store.entries) :
                i # j => store.entries[i].id # store.entries[j].id
           /\ \A k \in 1..Len(b.docs) :
                \A j \in 0..(FileChunks(b.docs[k].path) - 1) :
                    LET e    == store.entries[ChunksBefore(b.docs, k) + j + 1]
                        text == [path |-> b.docs[k].path, k |-> j]
                    IN  /\ e.text = text
                        /\ e.embedding = EmbeddingOf(text)
                        /\ e.meta.chunk_index = j
                        /\ e.meta.document_id = Stem(b.docs[k].path)
                        /\ e.meta.document_name = b.docs[k].name
                        /\ e.meta.document_type = b.docs[k].type
                        /\ e.meta.source_file = b.docs[k].path

\* A rebuild over a collection with entries has returned normally: two
\* different documents, each with chunks.
C17_Witness ==
    /\ b.outcome = "ok"
    /\ b.pre.store.entries # <<>>
    /\ Len(b.docs) = 2
    /\ b.docs[1] # b.docs[2]
    /\ FileChunks(b.docs[1].path) > 0
    /\ FileChunks(b.docs[2].path) > 1
    /\ store.entries # b.pre.store.entries

\* The documents of docs whose text gives at least one chunk.
WithChunks(docs) == SelectSeq(docs, LAMBDA doc : FileChunks(doc.path) > 0)

\* C18: a build_index over a list of documents of which some or all give
\* zero chunks, every document read and every provider and store call
\* answering, returns normally; and after a normal return the entries are
\* those of the build over the documents that have chunks.
C18_ZeroChunkAllowed ==
    /\ (b.docs # <<>> /\ \E k \in 1..Len(b.docs) : FileChunks(b.docs[k].path) = 0)
          => b.failStep # "report"
    /\ b.outcome = "ok"
          => store.entries = BuiltStore(WithChunks(b.docs), b.no).entries

\* The entries load_index samples: the first SampleCap of the collection.
Sampled == 1..Min(SampleCap, Len(store.entries))

\* The sampled entries of document d.
SampledOf(d) == {i \in Sampled : store.entries[i].meta.document_id = d}

RECURSIVE SumChunks(_, _)
\* The chunk counts of the records of reg with keys in ids, added up.
SumChunks(reg, ids) ==
    IF ids = {} THEN 0
    ELSE LET d == CHOOSE x \in ids : TRUE
         IN  reg[d].chunks + SumChunks(reg, ids \ {d})

\* C19: a load_index that returns normally on an instance whose registry was
\* empty leaves one record per document_id found among the sampled entries
\* (the first 1000 at most) and no other; the record has the name, type and
\* source of the first sampled entry of that document, and its chunk count
\* is the number of sampled entries with that document_id, so that the
\* counts add up to at most the sample cap and none exceeds the number of
\* stored entries of its document.
C19_Reconstruction ==
    [][(lres = "none" /\ lres' = "ok" /\ documents = NoDocuments)
          => /\ DOMAIN documents' = {store.entries[i].meta.document_id : i \in Sampled}
             /\ \A d \in DOMAIN documents' :
                  LET first == CHOOSE i \in SampledOf(d) : \A j \in SampledOf(d) : i <= j
                      true  == {i \in 1..Len(store.entries) :
                                  store.entries[i].meta.document_id = d}
                  IN  /\ documents'[d].name = store.entries[first].meta.document_name
                      /\ documents'[d].type = store.entries[first].meta.document_type
                      /\ documents'[d].path = store.entries[first].meta.source_file
                      /\ documents'[d].chunks = Cardinality(SampledOf(d))
                      /\ documents'[d].chunks <= Cardinality(true)
             /\ SumChunks(documents', DOMAIN documents') <= SampleCap]_vars

\* load_index has returned over a collection of more entries than it
\* samples: the registry has two documents, one of them with a chunk count
\* below the number of its stored entries.
C19_Witness ==
    /\ lres = "ok"
    /\ Len(store.entries) > SampleCap
    /\ Cardinality(DOMAIN documents) = 2
    /\ \E d \in DOMAIN documents :
          documents[d].chunks
              < Cardinality({i \in 1..Len(store.entries) :
                                store.entries[i].meta.document_id = d})

\* C20: a search whose store query is answered while build_index is between
\* its create_collection and its collection.add finds the collection empty,
\* whatever it held before; and one answered after delete_collection has
\* removed the collection and before create_collection finds no collection
\* and raises. The delete, create and insert are not one step for a reader.
C20_RebuildRace ==
    (callers[1].found.storeQueries = 1 /\ callers[1].found.fault = "none")
        => /\ callers[1].seen.pc = "insert"
                => (callers[1].found.status = "ok" /\ callers[1].found.raw = <<>>)
           /\ (callers[1].seen.pc = "create" /\ callers[1].seen.absent)
                => callers[1].found.status = "error"

\* A search that ran during a rebuild has returned no result, although the
\* collection had entries before the rebuild and has entries after it.
C20_Witness ==
    /\ callers[1].pc = "done"
    /\ callers[1].seen.pc = "insert"
    /\ callers[1].found.status = "ok"
    /\ callers[1].found.out = <<>>
    /\ b.pre.store.entries # <<>>
    /\ b.outcome = "ok"
    /\ store.entries # <<>>

\* The last entry of a history.
Last(history) == history[Len(history)]

\* The chat call before this one ended with the error message.
PreviousFailed ==
    /\ app.chat.pre.chatbot # <<>>
    /\ Last(app.chat.pre.chatbot).content.kind = "rephrase"

\* C21: when generate_response raises inside chat, chat ends normally: the
\* history is the one it was given plus the user message and one assistant
\* entry that holds the error text asking to rephrase, conversation_history
\* has no new record, the instance is as it was and takes the next chat call;
\* a chat call that follows and is answered keeps the error entry, shows the
\* answer and is logged.
C21_FailureIsRetryable ==
    /\ app.chat.pc = "failed" =>
          /\ app.status = "ok"
          /\ app.chat.response.status \in {"NotLoaded", "error"}
          /\ app.chatbot = app.chat.pre.chatbot
                \o <<[role |-> "user", content |-> UserText(app.chat.message)],
                     [role |-> "assistant",
                      content |-> ErrorMsg(app.chat.response.status)]>>
          /\ app.conversation_history = app.chat.pre.conversation_history
          /\ collection = app.chat.pre.collection
          /\ documents = app.chat.pre.documents
          /\ app.chats < MaxChats =>
                \A message \in Messages, f \in ChatFilters : ENABLED ChatCall(message, f)
    /\ (app.chat.pc = "answered" /\ PreviousFailed) =>
          /\ SubSeq(app.chatbot, 1, Len(app.chat.pre.chatbot)) = app.chat.pre.chatbot
          /\ Last(app.chatbot).content = AnswerText(app.chat.response.answer)
          /\ app.chat.response.answer.given
          /\ app.conversation_history =
                Append(app.chat.pre.conversation_history,
                       Logged(app.chat.message, app.chat.document_filter,
                              app.chat.response))

\* A chat call failed on a provider error and the next chat call on the same
\* IndustrialWebInterface was answered.
C21_Witness ==
    /\ app.chat.pc = "answered"
    /\ PreviousFailed
    /\ Last(app.chat.pre.chatbot).content.e = "error"
    /\ app.chat.pre.conversation_history = <<>>
    /\ Len(app.conversation_history) = 1

\* The document identifiers of a document list.
IdsOf(docs) == {Stem(docs[k].path) : k \in 1..Len(docs)}

\* The stored entries whose metadata names document identifier d.
EntriesOf(d) == {i \in 1..Len(store.entries) : store.entries[i].meta.document_id = d}

\* C22: after a build_index that returned normally the registry describes
\* exactly that build: its keys are the identifiers of the documents the build
\* was given, and each record's chunk count is the number of stored entries
\* with that document_id, also when two paths share a filename stem.
C22_RegistryOfLatestBuild ==
    b.outcome = "ok"
        => /\ DOMAIN documents = IdsOf(b.docs)
           /\ \A d \in DOMAIN documents :
                documents[d].chunks = Cardinality(EntriesOf(d))

\* The keys of the registry after a build that returned normally, alone.
RegistryKeysOfLatestBuild ==
    b.outcome = "ok" => DOMAIN documents = IdsOf(b.docs)

\* The chunk counts of the registry after a build that returned normally, for
\* the documents of that build.
RegistryCountsOfLatestBuild ==
    b.outcome = "ok"
        => \A d \in DOMAIN documents \cap IdsOf(b.docs) :
                documents[d].chunks = Cardinality(EntriesOf(d))

\* The chunk counts when no two documents of the build share a stem.
RegistryCountsDistinctStems ==
    (/\ b.outcome = "ok"
     /\ \A j, k \in 1..Len(b.docs) : j # k => Stem(b.docs[j].path) # Stem(b.docs[k].path))
        => \A d \in IdsOf(b.docs) : documents[d].chunks = Cardinality(EntriesOf(d))

\* C23: a load_index that returns normally on an instance whose last build or
\* load had returned normally, over the collection that build or load has
\* left, leaves the registry as it was: the same records with the same chunk
\* counts.
C23_LoadIdempotent ==
    [][(/\ lres = "none" /\ lres' = "ok"
        /\ everOk
        /\ collection = store.id
        /\ store' = store)
          => documents' = documents]_vars

\* The records load_index leaves on such an instance, without their counts.
LoadKeepsRecords ==
    [][(lres = "none" /\ lres' = "ok" /\ everOk /\ collection = store.id)
          => /\ DOMAIN documents' = DOMAIN documents
                    \cup {store.entries[i].meta.document_id : i \in Sampled}
             /\ \A d \in DOMAIN documents :
                  /\ documents'[d].name = documents[d].name
                  /\ documents'[d].type = documents[d].type
                  /\ documents'[d].path = documents[d].path
                  /\ documents'[d].chunks
                        = documents[d].chunks + Cardinality(SampledOf(d))]_vars

\* The message has no character other than whitespace.
OnlySpace(message) == \A i \in 1..Len(message) : message[i] = " "

\* No entry of the history shows the placeholder.
NoPlaceholder(history) ==
    \A i \in 1..Len(history) : history[i].content.kind # "placeholder"

\* The chat call has run to its end on a message that was not blank.
Replied == app.chat.pc \in {"answered", "failed"}

\* The history protocol of chat in every state of a call.
ChatHistory ==
    /\ app.chat.pc = "returned" =>
          /\ OnlySpace(app.chat.message)
          /\ app.chatbot = app.chat.pre.chatbot
          /\ app.chat.history = app.chat.pre.chatbot
          /\ app.conversation_history = app.chat.pre.conversation_history
          /\ app.requests = app.chat.pre.requests
    /\ app.chat.pc \in {"yielded", "answered", "failed"} =>
          /\ ~OnlySpace(app.chat.message)
          /\ Len(app.chatbot) = Len(app.chat.pre.chatbot) + 2
          /\ SubSeq(app.chatbot, 1, Len(app.chat.pre.chatbot)) = app.chat.pre.chatbot
          /\ app.chatbot[Len(app.chatbot) - 1]
                = [role |-> "user", content |-> UserText(app.chat.message)]
          /\ Last(app.chatbot).role = "assistant"
    /\ app.chat.pc = "yielded" =>
          /\ Last(app.chatbot).content = Searching
          /\ NoPlaceholder(app.chat.pre.chatbot)
    /\ app.chat.pc = "answered" =>
          Last(app.chatbot).content = AnswerText(app.chat.response.answer)
    /\ app.chat.pc = "failed" =>
          Last(app.chatbot).content = ErrorMsg(app.chat.response.status)
    /\ app.chat.pc # "yielded" => NoPlaceholder(app.chatbot)

\* C24: a chat call with a message that is not blank appends exactly two
\* entries to the history, the user message and then one assistant entry; the
\* placeholder it shows first is replaced by the answer or by the error
\* message before the call ends, and every call gets there; a blank or
\* whitespace-only message changes neither the history nor
\* conversation_history and makes no provider request.
C24_ChatProtocol ==
    /\ []ChatHistory
    /\ (app.chat.pc = "yielded") ~> (Replied /\ NoPlaceholder(app.chatbot))

\* A message was answered, and the whitespace-only message submitted after
\* it has returned.
C24_Witness ==
    /\ app.chat.pc = "returned"
    /\ app.chat.message # <<>>
    /\ Len(app.chatbot) = 2
    /\ Last(app.chatbot).content.kind = "answer"
    /\ Len(app.conversation_history) = 1
    /\ app.requests = 2

====
